---- MODULE Spec2Model ----
(***************************************************************************)
(* Model of the heat pump explanation engine (src/heat_pump_explainer.py). *)
(*                                                                         *)
(* Numbers are fixed point integers:                                       *)
(*   temperatures           tenths of a degree Celsius   (20.0  -> 200)    *)
(*   cop                    hundredths                   (1.8   -> 180)    *)
(*   power_consumption_kw   hundredths of a kW           (4.5   -> 450)    *)
(*   prices, cost_savings   hundredths of a pound        (0.12  -> 12)     *)
(*   carbon_kg              tenths of a kg               (0.8   -> 8)      *)
(* A Python dict is a function whose DOMAIN is the set of keys present.    *)
(* A Python string that the code slices or splits is a sequence of tokens. *)
(***************************************************************************)
EXTENDS Integers, Sequences, FiniteSets, TLC

VARIABLES
    catalog,       \* the scenario catalog, shared by every call
    collaborator,  \* the outcomes the text-generation service can produce
    pc,            \* per call: the statement of analyze_scenario it is at
    scen,          \* per call: index of its scenario_data in the catalog
    pattern, benefits, explanation, guidance, transparency,
                   \* per frame: the locals of analyze_scenario
    response,      \* per call: what the collaborator call ended in
    api_calls,     \* per call: number of collaborator invocations
    result,        \* per call: the returned dict
    error,         \* per call: the exception that left analyze_scenario
    pure_in,       \* a direct call of one component: function and arguments
    pure_out,      \* what that call returned or raised
    pure_prev,     \* what the call before it, with the same arguments, did
    pure_calls     \* component calls the explainer object has served

vars == <<catalog, collaborator, pc, scen, pattern, benefits, explanation,
          guidance, transparency, response, api_calls, result, error,
          pure_in, pure_out, pure_prev, pure_calls>>

-----------------------------------------------------------------------------
(* Bounds of the model *)

\* number of analyze_scenario calls that may run at the same time
NumCalls == 2
\* longest collaborator reply, in words
MaxReplyWords == 52
\* scenarios of the generated catalog that concurrent calls choose from
CatalogSize == 2

Calls == 1..NumCalls

-----------------------------------------------------------------------------
(* Python values *)

EmptyDict == [k \in {} |-> 0]
\* a local that has not been assigned yet
Unset == <<>>
\* the same for a local that holds a text (the empty text is a value)
NoText == <<"(unset)">>
\* Python's None, where a dict holds it as a value
PyNone == "None:NoneType"

\* dict.get(key, default)
Get(d, k, default) == IF k \in DOMAIN d THEN d[k] ELSE default
\* dict.get(key): None when the key is absent
GetOrNone(d, k) == Get(d, k, PyNone)
\* truth value of a str-or-None and of a number
TruthyStr(v) == v \notin {PyNone, ""}
TruthyNum(v) == v # 0

Raise(e) == [raised |-> e]
Raised(r) == "raised" \in DOMAIN r

\* n / d rounded to the nearest integer, ties to even (round(), ':.1f', ':.2f')
RoundDiv(n, d) ==
    LET q == n \div d
        r == n % d
    IN  IF 2 * r < d THEN q
        ELSE IF 2 * r > d THEN q + 1
        ELSE IF q % 2 = 0 THEN q ELSE q + 1

-----------------------------------------------------------------------------
(* Thresholds and table values of the source *)

DefaultTargetTemp == 200
DefaultPriceCurrent == 15
ExpectedPower == 300
CheapPrice == 12
LowCop == 180
ColdCopLow == 200
ColdCopHigh == 280
ForecastDrop == 50
TempDeficit == 20
LastCheapHour == 5

RequiredFields == {"indoor_temp", "outdoor_temp", "cop", "power_consumption_kw"}

PatternTypes ==
    {"efficiency_anomaly", "temperature_deficit", "high_power_consumption",
     "tariff_optimization", "vpp_curtailment", "predictive_heating",
     "cold_weather_operation", "normal_operation"}

-----------------------------------------------------------------------------
(* int(timestamp[11:13]) *)

Digits == {"0", "1", "2", "3", "4", "5", "6", "7", "8", "9"}
DigitVal(c) == CHOOSE n \in 0..9 : <<"0", "1", "2", "3", "4", "5", "6", "7", "8", "9">>[n + 1] = c

\* s[a:b] of a Python sequence (0-based, end exclusive, clipped to the length)
Slice(s, a, b) ==
    LET hi == IF b < Len(s) THEN b ELSE Len(s)
    IN  IF a >= hi THEN <<>> ELSE SubSeq(s, a + 1, hi)

RECURSIVE LStrip(_)
LStrip(s) == IF s # <<>> /\ Head(s) = " " THEN LStrip(Tail(s)) ELSE s
RECURSIVE RStrip(_)
RStrip(s) ==
    IF s # <<>> /\ s[Len(s)] = " " THEN RStrip(SubSeq(s, 1, Len(s) - 1)) ELSE s
\* str.strip()
Strip(s) == RStrip(LStrip(s))

RECURSIVE DigitsVal(_, _)
DigitsVal(s, acc) ==
    IF s = <<>> THEN acc ELSE DigitsVal(Tail(s), 10 * acc + DigitVal(Head(s)))

\* int(str): surrounding whitespace and one sign are accepted, anything else
\* than decimal digits raises ValueError
PyInt(str) ==
    LET t == Strip(str)
        signed == t # <<>> /\ Head(t) \in {"+", "-"}
        body == IF signed THEN Tail(t) ELSE t
    IN  IF body = <<>> \/ \E i \in 1..Len(body) : body[i] \notin Digits
        THEN Raise("ValueError")
        ELSE [value |-> IF signed /\ Head(t) = "-"
                        THEN -DigitsVal(body, 0) ELSE DigitsVal(body, 0)]

\* the default timestamp '2024-01-01T12:00:00'
DefaultTimestamp ==
    <<"2", "0", "2", "4", "-", "0", "1", "-", "0", "1", "T",
      "1", "2", ":", "0", "0", ":", "0", "0">>

-----------------------------------------------------------------------------
(* Criteria 1: detect_pattern *)

Trigger(text, args) == [text |-> text, args |-> args]

Classification(pt, sev, conf, trig, anomaly, cat) ==
    [pattern_type |-> pt, severity |-> sev, confidence |-> conf,
     trigger |-> trig, is_anomaly |-> anomaly, category |-> cat]

\* NORMAL: Tariff optimisation, with a price of exactly 0.12 counted as cheap
TariffOptimisationInclusive(data, hour) ==
    /\ hour >= 0 /\ hour <= LastCheapHour
    /\ Get(data, "electricity_price_current", DefaultPriceCurrent) <= CheapPrice

\* NORMAL: Tariff optimisation
TariffOptimisation(data, hour) ==
    /\ hour >= 0 /\ hour <= LastCheapHour
    /\ Get(data, "electricity_price_current", DefaultPriceCurrent) < CheapPrice

\* NORMAL: VPP curtailment, with a house at its target counted as below it
VppCurtailmentAtTarget(data, indoor_temp, target_temp) ==
    TruthyStr(GetOrNone(data, "vpp_signal")) /\ indoor_temp <= target_temp

\* NORMAL: VPP curtailment
VppCurtailment(data, indoor_temp, target_temp) ==
    TruthyStr(GetOrNone(data, "vpp_signal")) /\ indoor_temp < target_temp

\* NORMAL: Predictive pre-heating
PredictivePreHeating(data, outdoor_temp) ==
    /\ "weather_forecast_temp" \in DOMAIN data
    /\ TruthyNum(data["weather_forecast_temp"])
    /\ data["weather_forecast_temp"] < outdoor_temp - ForecastDrop

\* NORMAL: Cold weather operation, with a cop of exactly 2.8 inside the band
ColdWeatherOperationClosed(outdoor_temp, cop) ==
    outdoor_temp < 0 /\ cop >= ColdCopLow /\ cop <= ColdCopHigh

\* NORMAL: Cold weather operation
ColdWeatherOperation(outdoor_temp, cop) ==
    outdoor_temp < 0 /\ cop >= ColdCopLow /\ cop < ColdCopHigh

\* the rules that need the hour, tried in order once the hour is known
RulesAfterHour(data, hour, indoor_temp, target_temp, outdoor_temp, cop) ==
    IF TariffOptimisation(data, hour)
    THEN Classification("tariff_optimization", "none", "high",
                        Trigger("Operating during cheap-rate hours", <<>>),
                        FALSE, "smart_behavior")
    ELSE IF VppCurtailment(data, indoor_temp, target_temp)
    THEN Classification("vpp_curtailment", "none", "high",
                        Trigger("Grid demand response active", <<>>),
                        FALSE, "smart_behavior")
    ELSE IF PredictivePreHeating(data, outdoor_temp)
    THEN Classification("predictive_heating", "none", "high",
                        Trigger("Pre-heating before forecast cold snap", <<>>),
                        FALSE, "smart_behavior")
    ELSE IF ColdWeatherOperation(outdoor_temp, cop)
    THEN Classification("cold_weather_operation", "none", "high",
                        Trigger("Normal efficiency for {}degC weather", <<outdoor_temp>>),
                        FALSE, "normal_operation")
    ELSE Classification("normal_operation", "none", "medium",
                        Trigger("Standard heating operation", <<>>),
                        FALSE, "normal_operation")

\* the anomaly rules, tried first and in this order; Unset when none matches
AnomalyRulesSwapped(data, indoor_temp, target_temp, outdoor_temp, cop, power_kw) ==
    IF indoor_temp < target_temp - TempDeficit
       /\ GetOrNone(data, "heat_pump_status") = "heating"
    THEN Classification("temperature_deficit", "medium", "high",
                        Trigger("Indoor temp {}degC is {:.1f}degC below target",
                                <<indoor_temp, target_temp - indoor_temp>>),
                        TRUE, "performance_issue")
    ELSE IF cop < LowCop /\ outdoor_temp > 0
    THEN Classification("efficiency_anomaly", "high", "high",
                        Trigger("COP of {:.1f} is unusually low for {}degC",
                                <<RoundDiv(cop, 10), outdoor_temp>>),
                        TRUE, "potential_fault")
    ELSE IF 2 * power_kw > ExpectedPower * 3
    THEN Classification("high_power_consumption", "medium", "medium",
                        Trigger("Power usage {:.1f}kW exceeds typical range",
                                <<RoundDiv(power_kw, 10)>>),
                        TRUE, "efficiency_concern")
    ELSE Unset

AnomalyRules(data, indoor_temp, target_temp, outdoor_temp, cop, power_kw) ==
    IF cop < LowCop /\ outdoor_temp > 0
    THEN Classification("efficiency_anomaly", "high", "high",
                        Trigger("COP of {:.1f} is unusually low for {}degC",
                                <<RoundDiv(cop, 10), outdoor_temp>>),
                        TRUE, "potential_fault")
    ELSE IF indoor_temp < target_temp - TempDeficit
            /\ GetOrNone(data, "heat_pump_status") = "heating"
    THEN Classification("temperature_deficit", "medium", "high",
                        Trigger("Indoor temp {}degC is {:.1f}degC below target",
                                <<indoor_temp, target_temp - indoor_temp>>),
                        TRUE, "performance_issue")
    \* expected_power * 1.5, both sides doubled
    ELSE IF 2 * power_kw > ExpectedPower * 3
    THEN Classification("high_power_consumption", "medium", "medium",
                        Trigger("Power usage {:.1f}kW exceeds typical range",
                                <<RoundDiv(power_kw, 10)>>),
                        TRUE, "efficiency_concern")
    ELSE Unset

\* the rule chain, with the four required fields read; the hour is parsed
\* only once no anomaly rule has returned
RuleChain(scenario_data, data) ==
    LET indoor_temp == data["indoor_temp"]
        target_temp == Get(data, "target_temp", DefaultTargetTemp)
        outdoor_temp == data["outdoor_temp"]
        cop == data["cop"]
        power_kw == data["power_consumption_kw"]
        anomaly == AnomalyRules(data, indoor_temp, target_temp, outdoor_temp, cop, power_kw)
        hour == PyInt(Slice(Get(scenario_data, "timestamp", DefaultTimestamp), 11, 13))
    IN  IF anomaly # Unset THEN anomaly
        ELSE IF Raised(hour) THEN hour
        ELSE RulesAfterHour(data, hour.value, indoor_temp, target_temp, outdoor_temp, cop)

\* a variant that reads power_consumption_kw only where rule 3 needs it
detect_pattern_lazy_power(scenario_data) ==
    IF "data" \notin DOMAIN scenario_data THEN Raise("KeyError")
    ELSE LET data == scenario_data["data"]
             early == IF {"indoor_temp", "outdoor_temp", "cop"} \subseteq DOMAIN data
                      THEN AnomalyRules(data @@ ("power_consumption_kw" :> 0),
                                        data["indoor_temp"],
                                        Get(data, "target_temp", DefaultTargetTemp),
                                        data["outdoor_temp"], data["cop"], 0)
                      ELSE Unset
         IN  IF RequiredFields \subseteq DOMAIN data THEN RuleChain(scenario_data, data)
             ELSE IF early # Unset THEN early
             ELSE Raise("KeyError")

detect_pattern(scenario_data) ==
    IF "data" \notin DOMAIN scenario_data THEN Raise("KeyError")
    ELSE LET data == scenario_data["data"]
         IN  IF ~(RequiredFields \subseteq DOMAIN data) THEN Raise("KeyError")
             ELSE RuleChain(scenario_data, data)

-----------------------------------------------------------------------------
(* Benefits calculation: calculate_benefits *)

DefaultPricePeak == 28
DefaultPriceTariff == 8
DefaultPowerKw == 200
CheapHours == 3
TariffCarbon == 8
VppCarbon == 12
VppSavings == 15
PredictiveSavings == 85
PredictiveCarbon == 5

\* a variant that keeps a running total of the avoided carbon on the explainer
calculate_benefits_running_total(scenario_data, pat) ==
    LET data == scenario_data["data"]
        served == pure_calls + 1
    IN  IF pat.pattern_type = "tariff_optimization"
        THEN [cost_savings |->
                  RoundDiv((Get(data, "electricity_price_peak", DefaultPricePeak)
                            - Get(data, "electricity_price_current", DefaultPriceTariff))
                           * Get(data, "power_consumption_kw", DefaultPowerKw)
                           * CheapHours, 100),
              carbon_kg |-> TariffCarbon * served]
        ELSE IF pat.pattern_type = "vpp_curtailment"
        THEN [cost_savings |-> VppSavings, carbon_kg |-> VppCarbon * served]
        ELSE IF pat.pattern_type = "predictive_heating"
        THEN [cost_savings |-> PredictiveSavings, carbon_kg |-> PredictiveCarbon * served]
        ELSE [cost_savings |-> 0, carbon_kg |-> 0]

\* a variant that takes the classifier's default for an absent current price
calculate_benefits_classifier_default(scenario_data, pat) ==
    LET data == scenario_data["data"]
    IN  IF pat.pattern_type = "tariff_optimization"
        THEN [cost_savings |->
                  RoundDiv((Get(data, "electricity_price_peak", DefaultPricePeak)
                            - Get(data, "electricity_price_current", DefaultPriceCurrent))
                           * Get(data, "power_consumption_kw", DefaultPowerKw)
                           * CheapHours, 100),
              carbon_kg |-> TariffCarbon]
        ELSE IF pat.pattern_type = "vpp_curtailment"
        THEN [cost_savings |-> VppSavings, carbon_kg |-> VppCarbon]
        ELSE IF pat.pattern_type = "predictive_heating"
        THEN [cost_savings |-> PredictiveSavings, carbon_kg |-> PredictiveCarbon]
        ELSE [cost_savings |-> 0, carbon_kg |-> 0]

\* a variant that pays the grid compensation per kW of the snapshot
calculate_benefits_per_kw(scenario_data, pat) ==
    LET data == scenario_data["data"]
    IN  IF pat.pattern_type = "tariff_optimization"
        THEN [cost_savings |->
                  RoundDiv((Get(data, "electricity_price_peak", DefaultPricePeak)
                            - Get(data, "electricity_price_current", DefaultPriceTariff))
                           * Get(data, "power_consumption_kw", DefaultPowerKw)
                           * CheapHours, 100),
              carbon_kg |-> TariffCarbon]
        ELSE IF pat.pattern_type = "vpp_curtailment"
        THEN [cost_savings |->
                  RoundDiv(VppSavings * Get(data, "power_consumption_kw", DefaultPowerKw),
                           100),
              carbon_kg |-> VppCarbon]
        ELSE IF pat.pattern_type = "predictive_heating"
        THEN [cost_savings |-> PredictiveSavings, carbon_kg |-> PredictiveCarbon]
        ELSE [cost_savings |-> 0, carbon_kg |-> 0]

\* (peak - actual) * power * hours is in 1/10000 pound; round(_, 2) brings it to
\* hundredths. carbon_kg is already in tenths, round(_, 1) leaves it as it is.
calculate_benefits(scenario_data, pat) ==
    LET data == scenario_data["data"]
    IN  IF pat.pattern_type = "tariff_optimization"
        THEN LET peak_price == Get(data, "electricity_price_peak", DefaultPricePeak)
                 actual_price == Get(data, "electricity_price_current", DefaultPriceTariff)
                 power_kw == Get(data, "power_consumption_kw", DefaultPowerKw)
             IN  [cost_savings |->
                      RoundDiv((peak_price - actual_price) * power_kw * CheapHours, 100),
                  carbon_kg |-> TariffCarbon]
        ELSE IF pat.pattern_type = "vpp_curtailment"
        THEN [cost_savings |-> VppSavings, carbon_kg |-> VppCarbon]
        ELSE IF pat.pattern_type = "predictive_heating"
        THEN [cost_savings |-> PredictiveSavings, carbon_kg |-> PredictiveCarbon]
        ELSE [cost_savings |-> 0, carbon_kg |-> 0]

-----------------------------------------------------------------------------
(* Text: a string is a sequence of tokens, " " is whitespace, every other     *)
(* token is a run of non-blank characters; tokens side by side form one word. *)

WordLimit == 50

\* ' '.join(words), each word a sequence of tokens
RECURSIVE Join(_)
Join(words) ==
    IF words = <<>> THEN <<>>
    ELSE IF Len(words) = 1 THEN Head(words)
    ELSE Head(words) \o <<" ">> \o Join(Tail(words))

\* the first word of a text that starts with a non-blank token
RECURSIVE FirstWord(_)
FirstWord(s) ==
    IF s = <<>> \/ Head(s) = " " THEN <<>> ELSE <<Head(s)>> \o FirstWord(Tail(s))

\* str.split(): the maximal runs of non-blank tokens
RECURSIVE Split(_)
Split(s) ==
    LET t == LStrip(s)
    IN  IF t = <<>> THEN <<>>
        ELSE LET w == FirstWord(t)
             IN  <<w>> \o Split(SubSeq(t, Len(w) + 1, Len(t)))

WordCount(s) == Len(Split(s))

\* a literal of single-token words
Sentence(ws) == Join([i \in 1..Len(ws) |-> <<ws[i]>>])

\* a number as f-string text
Num(n) == ToString(n)

\* _fallback_explanation: the table is built whole, then looked up
FallbackTemplates(data, bens) ==
    [tariff_optimization |->
        Sentence(<<"Your", "smart", "tariff", "shifted", "heating", "to", "cheap-rate",
                   "hours,", "saving", "you">>)
        \o <<" ", "GBP", Num(Get(bens, "cost_savings", 120)), " ">>
        \o Sentence(<<"today.", "The", "system", "ran", "efficiently", "despite">>)
        \o <<" ", Num(data["outdoor_temp"]), "degC", " ", "outside.">>,
     vpp_curtailment |->
        Sentence(<<"The", "grid", "asked", "your", "heat", "pump", "to", "reduce",
                   "during", "peak", "demand.", "Your", "house", "will", "reach">>)
        \o <<" ", Num(Get(data, "target_temp", DefaultTargetTemp)), "degC", " ">>
        \o Sentence(<<"by", "morning", "as", "usual.", "This", "helps", "prevent",
                      "blackouts.">>),
     predictive_heating |->
        Sentence(<<"Your", "system", "is", "pre-heating", "before", "tonight's", "cold",
                   "snap">>)
        \o <<" ", "(", Num(Get(data, "weather_forecast_temp", -80)), "degC", " ">>
        \o Sentence(<<"forecast).", "This", "uses", "less", "energy", "than", "playing",
                      "catch-up", "later.">>),
     cold_weather_operation |->
        Sentence(<<"Your", "heat", "pump", "is", "using", "more", "electricity",
                   "because", "outdoor", "temperature", "dropped", "to">>)
        \o <<" ", Num(data["outdoor_temp"]), "degC.", " ">>
        \o Sentence(<<"This", "is", "normal", "winter", "behaviour", "-", "still",
                      "cheaper", "than", "gas.">>),
     efficiency_anomaly |->
        Sentence(<<"Your", "system's", "efficiency">>)
        \o <<" ", "(", Num(RoundDiv(data["cop"], 10)), ")", " ">>
        \o Sentence(<<"is", "lower", "than", "expected", "for">>)
        \o <<" ", Num(data["outdoor_temp"]), "degC", " ">>
        \o Sentence(<<"weather.", "Consider", "checking", "your", "insulation", "or",
                      "booking", "a", "service", "check.">>)]

FallbackDefault == Sentence(<<"Your", "heat", "pump", "is", "operating", "normally.">>)

\* a variant that answers with the default sentence whatever the pattern
fallback_explanation_default_only(pat, data, bens) == FallbackDefault

fallback_explanation(pat, data, bens) ==
    Get(FallbackTemplates(data, bens), pat.pattern_type, FallbackDefault)

-----------------------------------------------------------------------------
(* Criteria 2: generate_plain_language_explanation *)

\* what self.client.messages.create(...) followed by response.content[0].text
\* can end in: a reply text, or an exception (the service is unreachable, it
\* answers with an error status, the response holds no text block). A reply
\* is described by its number of words and whether blanks surround it.
Reply(n, padded) == [kind |-> "reply", words |-> n, padded |-> padded]
Failure(exc) == [kind |-> "raise", exc |-> exc]
CollaboratorFailures == {"APIConnectionError", "APIStatusError", "IndexError"}

\* n words separated by single blanks
Words(n) == Join([i \in 1..n |-> <<"w">>])

\* response.content[0].text of a reply
ReplyText(outcome) ==
    IF outcome.padded
    THEN <<" ">> \o Words(outcome.words) \o <<" ", " ">>
    ELSE Words(outcome.words)

\* a variant that appends the ellipsis marker as a word of its own
ProcessReplySpacedEllipsis(text) ==
    LET stripped == Strip(text)
    IN  IF WordCount(stripped) > WordLimit
        THEN Join(SubSeq(Split(stripped), 1, WordLimit)) \o <<" ", "...">>
        ELSE stripped

\* the reply processed after the call returned: trimmed, cut to 50 words
ProcessReply(text) ==
    LET stripped == Strip(text)
        word_count == WordCount(stripped)
    IN  IF word_count > WordLimit
        THEN Join(SubSeq(Split(stripped), 1, WordLimit)) \o <<"...">>
        ELSE stripped

\* the value generate_plain_language_explanation returns for an outcome of
\* its one call
NarrativeFor(outcome, pat, data, bens) ==
    IF outcome.kind = "reply"
    THEN ProcessReply(ReplyText(outcome))
    ELSE fallback_explanation(pat, data, bens)

-----------------------------------------------------------------------------
(* Criteria 3: get_actionable_guidance *)

\* an f-string: its literal text and the numbers it interpolates
F(text, args) == [text |-> text, args |-> args]

GuidanceEntry(status, action, detail, confidence, tier) ==
    [status |-> status, action |-> action, detail |-> detail,
     confidence |-> confidence, tier |-> tier]

StatusNormal == " This is normal winter behaviour"
StatusCheck == " Consider checking your insulation"
StatusFault == " This might indicate a fault"

\* guidance_map, built whole before the lookup
guidance_map(data) ==
    [tariff_optimization |->
        GuidanceEntry(StatusNormal, "No action needed",
            F("Your smart tariff is working as designed to minimize costs.", <<>>),
            "Definitely normal", "normal"),
     vpp_curtailment |->
        GuidanceEntry(StatusNormal, "No action needed",
            F("Your system is helping balance the grid during peak demand. Temperature will recover automatically.", <<>>),
            "Definitely normal", "normal"),
     predictive_heating |->
        GuidanceEntry(StatusNormal, "No action needed",
            F("Your system is optimizing for upcoming weather. This is more efficient than reactive heating.", <<>>),
            "Definitely normal", "normal"),
     cold_weather_operation |->
        GuidanceEntry(StatusNormal, "No action needed",
            F("Heat pumps use more electricity in very cold weather ({}degC), but remain cost-effective.",
              <<data["outdoor_temp"]>>),
            "Definitely normal", "normal"),
     temperature_deficit |->
        GuidanceEntry(StatusCheck, "Check for drafts or poor insulation",
            F("Your home is struggling to maintain temperature. Improving insulation could help your heat pump work more efficiently.", <<>>),
            "This might need attention", "check"),
     high_power_consumption |->
        GuidanceEntry(StatusCheck, "Review insulation and radiator sizing",
            F("Power usage ({:.1f}kW) is higher than typical. Better insulation could reduce this.",
              <<RoundDiv(data["power_consumption_kw"], 10)>>),
            "This might need attention", "check"),
     efficiency_anomaly |->
        GuidanceEntry(StatusFault, "Book a service check with your installer",
            F("Efficiency ({:.1f}) is lower than expected for {}degC. Could indicate refrigerant levels, sensor issues, or airflow problems.",
              <<RoundDiv(data["cop"], 10), data["outdoor_temp"]>>),
            "This might indicate a fault", "fault")]

GuidanceDefault ==
    GuidanceEntry(StatusNormal, "No action needed",
        F("Your heat pump is operating within expected parameters.", <<>>),
        "Probably normal", "normal")

\* the keys the table's f-strings subscript while it is built
GuidanceFields == {"outdoor_temp", "power_consumption_kw", "cop"}

\* a variant that subscripts the table instead of falling back to the default
get_actionable_guidance_subscript(pat, scenario_data) ==
    LET data == scenario_data["data"]
    IN  IF ~(GuidanceFields \subseteq DOMAIN data) THEN Raise("KeyError")
        ELSE IF pat.pattern_type \in DOMAIN guidance_map(data)
        THEN guidance_map(data)[pat.pattern_type]
        ELSE Raise("KeyError")

\* a variant without the check tier: its entries fall back to the default
get_actionable_guidance_no_check_tier(pat, scenario_data) ==
    LET data == scenario_data["data"]
    IN  IF ~(GuidanceFields \subseteq DOMAIN data) THEN Raise("KeyError")
        ELSE LET entry == Get(guidance_map(data), pat.pattern_type, GuidanceDefault)
             IN  IF entry.tier = "check" THEN GuidanceDefault ELSE entry

get_actionable_guidance(pat, scenario_data) ==
    LET data == scenario_data["data"]
    IN  IF ~(GuidanceFields \subseteq DOMAIN data) THEN Raise("KeyError")
        ELSE Get(guidance_map(data), pat.pattern_type, GuidanceDefault)

-----------------------------------------------------------------------------
(* Criteria 4: build_transparency_data *)

CopExcellent == 350
CopGood == 300
CopModerate == 250
CopAcceptable == 200

\* a variant whose bands are open below: a boundary value falls in the lower band
interpret_cop_open_below(cop) ==
    IF cop > CopExcellent THEN "Excellent efficiency"
    ELSE IF cop > CopGood THEN "Good efficiency"
    ELSE IF cop > CopModerate THEN "Moderate efficiency"
    ELSE IF cop > CopAcceptable THEN "Acceptable for cold weather"
    ELSE "Lower than expected - may need attention"

interpret_cop(cop) ==
    IF cop >= CopExcellent THEN "Excellent efficiency"
    ELSE IF cop >= CopGood THEN "Good efficiency"
    ELSE IF cop >= CopModerate THEN "Moderate efficiency"
    ELSE IF cop >= CopAcceptable THEN "Acceptable for cold weather"
    ELSE "Lower than expected - may need attention"

NotApplicable == F("N/A", <<>>)

\* logic_map, built whole before the lookup
logic_map(data) ==
    [tariff_optimization |->
        [text |-> "Detected heating during off-peak hours (cheap electricity at GBP{:.2f}/kWh vs peak GBP{:.2f}/kWh)",
         args |-> <<Get(data, "electricity_price_current", DefaultPriceTariff),
                    Get(data, "electricity_price_peak", DefaultPricePeak)>>,
         signal |-> ""],
     vpp_curtailment |->
        [text |-> "Grid signal '{}' active with temperature {}degC below target",
         args |-> <<data["indoor_temp"]>>,
         signal |-> GetOrNone(data, "vpp_signal")],
     predictive_heating |->
        IF "weather_forecast_temp" \in DOMAIN data
        THEN [text |-> "Forecast shows temperature drop to {}degC, system pre-heating while current outdoor temp is {}degC",
              args |-> <<data["weather_forecast_temp"], data["outdoor_temp"]>>,
              signal |-> ""]
        ELSE [text |-> "Forecast shows temperature drop to NonedegC, system pre-heating while current outdoor temp is {}degC",
              args |-> <<data["outdoor_temp"]>>,
              signal |-> ""],
     cold_weather_operation |->
        [text |-> "Outdoor temperature {}degC with COP {:.1f} is within normal range for winter",
         args |-> <<data["outdoor_temp"], RoundDiv(data["cop"], 10)>>,
         signal |-> ""],
     efficiency_anomaly |->
        [text |-> "COP {:.1f} is below expected range (2.5-3.5) for outdoor temperature {}degC",
         args |-> <<RoundDiv(data["cop"], 10), data["outdoor_temp"]>>,
         signal |-> ""]]

LogicDefault ==
    [text |-> "Analysis of operational parameters suggests normal behaviour",
     args |-> <<>>, signal |-> ""]

explain_conclusion_logic(pat, data) ==
    Get(logic_map(data), pat.pattern_type, LogicDefault)

DefaultFlowTemp == 400
DefaultSizeKw == 70
DefaultAnnualSpf == 280
KgPerTree == 25

\* str.replace('_', ' ').title() and str.title() of a table key
Title(str) == [title |-> str]

build_transparency_data(scenario_data, pat, bens) ==
    LET data == scenario_data["data"]
        profile == Get(scenario_data, "property_profile", EmptyDict)
        specs == Get(profile, "heat_pump_specs", EmptyDict)
        target == Get(data, "target_temp", DefaultTargetTemp)
        carbon == Get(bens, "carbon_kg", 0)
    IN  IF ~(RequiredFields \subseteq DOMAIN data) THEN Raise("KeyError")
        ELSE
        [detection_details |->
            [pattern_detected |-> Title(pat.pattern_type),
             detection_confidence |-> Title(pat.confidence),
             is_anomaly |-> IF pat.is_anomaly THEN "Yes" ELSE "No",
             trigger |-> pat.trigger],
         measurements |->
            [indoor_temperature |-> F("{}degC", <<data["indoor_temp"]>>),
             target_temperature |-> F("{}degC", <<target>>),
             temperature_gap |-> F("{:.1f}degC", <<target - data["indoor_temp"]>>),
             outdoor_temperature |-> F("{}degC", <<data["outdoor_temp"]>>),
             system_efficiency |-> F("{:.1f}", <<RoundDiv(data["cop"], 10)>>),
             cop_interpretation |-> interpret_cop(data["cop"]),
             power_consumption |->
                 F("{:.1f} kW", <<RoundDiv(data["power_consumption_kw"], 10)>>),
             flow_temperature |-> F("{}degC", <<Get(data, "flow_temp", DefaultFlowTemp)>>)],
         context |->
            [timestamp |-> Get(scenario_data, "timestamp", <<"Unknown">>),
             electricity_price |->
                 F("GBP{:.2f}/kWh",
                   <<Get(data, "electricity_price_current", DefaultPriceCurrent)>>),
             peak_price |->
                 IF "electricity_price_peak" \in DOMAIN data
                    /\ TruthyNum(data["electricity_price_peak"])
                 THEN F("GBP{:.2f}/kWh", <<data["electricity_price_peak"]>>)
                 ELSE NotApplicable,
             grid_signal |-> Get(data, "vpp_signal", "None"),
             weather_forecast |->
                 IF "weather_forecast_temp" \in DOMAIN data
                    /\ TruthyNum(data["weather_forecast_temp"])
                 THEN F("{}degC", <<data["weather_forecast_temp"]>>)
                 ELSE NotApplicable],
         property_details |->
            [property_type |->
                 Get(Get(profile, "property_details", EmptyDict), "house_type", "Unknown"),
             heat_pump |-> <<Get(specs, "brand", "Unknown"), Get(specs, "model", "")>>,
             heat_pump_size |-> F("{} kW", <<Get(specs, "size_kw", DefaultSizeKw)>>),
             typical_annual_efficiency |->
                 F("{:.2f}", <<Get(Get(profile, "performance_data", EmptyDict),
                                   "annual_spf", DefaultAnnualSpf)>>)],
         calculated_benefits |->
            [cost_savings_today |-> F("GBP{:.2f}", <<Get(bens, "cost_savings", 0)>>),
             carbon_avoided |-> F("{:.1f} kg CO2", <<carbon>>),
             equivalent_to |->
                 IF carbon > 0
                 THEN F("{:.1f} trees planted", <<RoundDiv(carbon, KgPerTree)>>)
                 ELSE NotApplicable],
         why_this_conclusion |-> explain_conclusion_logic(pat, data)]

-----------------------------------------------------------------------------
(* Property profiles and the scenario catalog (src/property_profiles.py) *)

\* create_profile, for a row whose numeric columns are all missing
DefaultProfile ==
    [profile_name |-> "Average ASHP",
     property_id |-> "EOH0001",
     property_details |-> [house_type |-> "Semi-detached", house_age |-> "1945-1964"],
     heat_pump_specs |->
         [type |-> "ASHP", brand |-> "Unknown", model |-> "", size_kw |-> 70,
          refrigerant |-> "Unknown"],
     performance_data |->
         [annual_spf |-> 280, mean_flow_temp |-> 400, winter_flow_temp |-> 420,
          coldest_day_cop |-> 200, coldest_day_outdoor_temp |-> -50]]

\* '2024-01-<dd>T<hh>:<mm>:00'
Stamp(d1, d2, h1, h2, m1, m2) ==
    <<"2", "0", "2", "4", "-", "0", "1", "-", d1, d2, "T", h1, h2, ":", m1, m2,
      ":", "0", "0">>

Max(a, b) == IF a > b THEN a ELSE b

\* size_kw (tenths of a kW) times a factor (hundredths), in hundredths of a kW
PowerShare(size_kw, factor) == (size_kw * factor) \div 10

generate_scenarios_from_profile(profile) ==
    LET size_kw == profile.heat_pump_specs.size_kw
        perf == profile.performance_data
    IN  << [name |-> "Early Morning Heating on Cheap Tariff",
            property_profile |-> profile,
            timestamp |-> Stamp("1", "5", "0", "2", "3", "0"),
            event_type |-> "tariff_optimization",
            data |-> [indoor_temp |-> 192, target_temp |-> 200, outdoor_temp |-> -30,
                      heat_pump_status |-> "heating",
                      power_consumption_kw |-> PowerShare(size_kw, 30),
                      cop |-> perf.annual_spf - 20,
                      flow_temp |-> perf.winter_flow_temp,
                      electricity_price_current |-> 8,
                      electricity_price_peak |-> 28,
                      vpp_signal |-> PyNone]],
           [name |-> "Grid Demand Response (Peak Period)",
            property_profile |-> profile,
            timestamp |-> Stamp("1", "5", "1", "8", "1", "5"),
            event_type |-> "vpp_curtailment",
            data |-> [indoor_temp |-> 191, target_temp |-> 200, outdoor_temp |-> 40,
                      heat_pump_status |-> "reduced",
                      power_consumption_kw |-> PowerShare(size_kw, 15),
                      cop |-> perf.annual_spf + 30,
                      flow_temp |-> perf.mean_flow_temp,
                      electricity_price_current |-> 32,
                      vpp_signal |-> "reduce_50%"]],
           [name |-> "Cold Weather Performance",
            property_profile |-> profile,
            timestamp |-> Stamp("2", "0", "0", "8", "0", "0"),
            event_type |-> "normal_winter_behavior",
            data |-> [indoor_temp |-> 198, target_temp |-> 200,
                      outdoor_temp |-> perf.coldest_day_outdoor_temp,
                      heat_pump_status |-> "heating",
                      power_consumption_kw |-> PowerShare(size_kw, 50),
                      cop |-> perf.coldest_day_cop,
                      flow_temp |-> perf.winter_flow_temp + 20,
                      electricity_price_current |-> 15]],
           [name |-> "Pre-heating Before Cold Snap",
            property_profile |-> profile,
            timestamp |-> Stamp("1", "6", "1", "4", "0", "0"),
            event_type |-> "predictive_heating",
            data |-> [indoor_temp |-> 212, target_temp |-> 200, outdoor_temp |-> 20,
                      heat_pump_status |-> "heating",
                      power_consumption_kw |-> PowerShare(size_kw, 30),
                      cop |-> perf.annual_spf + 50,
                      flow_temp |-> perf.mean_flow_temp,
                      weather_forecast_temp |-> -80]],
           [name |-> "Lower Than Expected Efficiency",
            property_profile |-> profile,
            timestamp |-> Stamp("2", "2", "1", "0", "3", "0"),
            event_type |-> "potential_fault",
            data |-> [indoor_temp |-> 185, target_temp |-> 200, outdoor_temp |-> 30,
                      heat_pump_status |-> "heating",
                      power_consumption_kw |-> PowerShare(size_kw, 45),
                      cop |-> Max(140, perf.annual_spf - 150),
                      flow_temp |-> perf.mean_flow_temp + 50,
                      electricity_price_current |-> 15]] >>

GeneratedScenarios == generate_scenarios_from_profile(DefaultProfile)

-----------------------------------------------------------------------------
(* Inputs *)

\* the dicts holding `key` with a value of vals, and the dict without it
Opt(key, vals) == {EmptyDict} \cup {key :> v : v \in vals}
\* d without key k
Drop(d, k) == [x \in DOMAIN d \ {k} |-> d[x]]

\* timestamps: cheap-rate hours, the first hour after them, a date without a
\* time, an hour written with a blank
TsNight == Stamp("1", "5", "0", "2", "3", "0")
TsLastCheap == Stamp("1", "5", "0", "5", "5", "9")
TsMorning == Stamp("1", "5", "0", "6", "0", "0")
TsDateOnly == SubSeq(TsNight, 1, 10)
TsBlankHour == Stamp("1", "5", " ", "2", "3", "0")

\* scenario records over the given values of every field the engine reads
ScenariosOver(Indoor, Target, Outdoor, Cop, Power, Status, Current, Peak, Vpp, Forecast, Timestamps) ==
    { ("data" :> ( [indoor_temp |-> i, outdoor_temp |-> o, cop |-> c,
                    power_consumption_kw |-> p]
                   @@ t @@ st @@ cur @@ pk @@ v @@ f ))
      @@ ts @@ ("name" :> "Scenario")
      : i \in Indoor, o \in Outdoor, c \in Cop, p \in Power, t \in Target,
        st \in Status, cur \in Current, pk \in Peak, v \in Vpp, f \in Forecast,
        ts \in Timestamps }

\* inputs of detect_pattern alone: every field it reads, on both sides of
\* every threshold
DetectInputs ==
    ScenariosOver({175, 190, 200}, Opt("target_temp", {210}), {-50, 0, 60},
                  {150, 180, 240, 300}, {210, 450, 460},
                  {"heat_pump_status" :> "heating", "heat_pump_status" :> "reduced"},
                  Opt("electricity_price_current", {8, 12}), {EmptyDict},
                  Opt("vpp_signal", {PyNone, "reduce_50%"}),
                  Opt("weather_forecast_temp", {0, -80}),
                  Opt("timestamp", {TsNight, TsMorning, TsDateOnly, TsBlankHour}))

\* inputs of detect_pattern that pass the anomaly rules, on both sides of every
\* threshold of the rules after them
SmartBehaviourInputs ==
    ScenariosOver({198, 200}, Opt("target_temp", {192}), {-50, 0, 60},
                  {199, 200, 240, 279, 280}, {210},
                  {"heat_pump_status" :> "heating"},
                  Opt("electricity_price_current", {11, 12}), {EmptyDict},
                  Opt("vpp_signal", {PyNone, "", "reduce_50%"}),
                  Opt("weather_forecast_temp", {0, 10, -80}),
                  Opt("timestamp", {TsNight, TsLastCheap, TsMorning}))

\* inputs of a whole analysis
AnalysisInputs ==
    ScenariosOver({175, 200}, {EmptyDict}, {-50, 60}, {150, 240}, {210, 460},
                  {"heat_pump_status" :> "heating", "heat_pump_status" :> "reduced"},
                  Opt("electricity_price_current", {8}),
                  Opt("electricity_price_peak", {5, 28}),
                  Opt("vpp_signal", {"reduce_50%"}),
                  Opt("weather_forecast_temp", {-80}),
                  Opt("timestamp", {TsNight, TsDateOnly}))

\* scenario records that lack a required field, or the data dict itself
MissingRequiredInputs ==
    { [GeneratedScenarios[i] EXCEPT !.data = Drop(@, k)]
      : i \in 1..Len(GeneratedScenarios), k \in RequiredFields }
MissingFieldInputs == MissingRequiredInputs \cup {Drop(GeneratedScenarios[1], "data")}

\* inputs of calculate_benefits, get_actionable_guidance and
\* build_transparency_data called on their own
ComponentInputs ==
    ScenariosOver({192}, {EmptyDict}, {-30, 30}, {150, 260}, {105, 210, 460},
                  {EmptyDict},
                  Opt("electricity_price_current", {8, 32}),
                  Opt("electricity_price_peak", {0, 5, 28}),
                  {EmptyDict}, Opt("weather_forecast_temp", {0, -80}),
                  Opt("timestamp", {TsNight}))

\* snapshots with a cop on and just below every threshold of _interpret_cop
CopBandInputs ==
    ScenariosOver({192}, {EmptyDict}, {30}, {199, 200, 249, 250, 299, 300, 349, 350},
                  {210}, {EmptyDict}, {EmptyDict}, {EmptyDict}, {EmptyDict}, {EmptyDict},
                  Opt("timestamp", {TsNight}))

\* a classification of the given type; components called on their own read
\* its pattern_type and may be handed one detect_pattern never returns
PatternOfType(pt) ==
    Classification(pt, "none", "medium", Trigger("Standard heating operation", <<>>),
                   FALSE, "normal_operation")
AnyPatternType == PatternTypes \cup {"unknown_pattern"}

Outcomes ==
    {Reply(n, FALSE) : n \in {0, WordLimit, WordLimit + 1, MaxReplyWords}}
    \cup {Reply(3, TRUE)}
    \cup {Failure(e) : e \in CollaboratorFailures}

-----------------------------------------------------------------------------
(* The main analysis function: analyze_scenario, one action per statement *)

\* a variant that keeps the locals on the shared explainer object
FrameShared(c) == 1

\* the frame holding the locals of call c: every call has its own
Frame(c) == c

\* a variant that narrates last, after guidance and transparency
AnalyzeStepsNarrateLast ==
    <<"detect_pattern", "calculate_benefits", "get_actionable_guidance",
      "build_transparency_data", "generate_plain_language_explanation", "return">>

AnalyzeSteps ==
    <<"detect_pattern", "calculate_benefits", "generate_plain_language_explanation",
      "get_actionable_guidance", "build_transparency_data", "return">>

StepAfter(step) ==
    AnalyzeSteps[1 + CHOOSE i \in 1..Len(AnalyzeSteps) : AnalyzeSteps[i] = step]

\* a variant that calls the collaborator again after a failure
AfterNarrativeRetry(outcome) ==
    IF outcome.kind = "raise"
    THEN "generate_plain_language_explanation"
    ELSE StepAfter("generate_plain_language_explanation")

\* a variant that returns straight away once the fallback has been taken
AfterNarrativeSkipOnFailure(outcome) ==
    IF outcome.kind = "raise" THEN "return"
    ELSE StepAfter("generate_plain_language_explanation")

\* where control goes once the collaborator call has ended and its outcome
\* been handled: on to the next statement of analyze_scenario
AfterNarrative(outcome) == StepAfter("generate_plain_language_explanation")

Scenario(c) == catalog[scen[c]]

Begin(c) ==
    /\ pc[c] = "start"
    /\ \E i \in 1..Len(catalog) : scen' = [scen EXCEPT ![c] = i]
    /\ pc' = [pc EXCEPT ![c] = AnalyzeSteps[1]]
    /\ UNCHANGED <<catalog, collaborator, pattern, benefits, explanation, guidance,
                   transparency, response, api_calls, result, error, pure_in, pure_out,
                   pure_prev, pure_calls>>

Detect(c) ==
    /\ pc[c] = "detect_pattern"
    /\ LET r == detect_pattern(Scenario(c))
       IN  IF Raised(r)
           THEN /\ error' = [error EXCEPT ![c] = r.raised]
                /\ pc' = [pc EXCEPT ![c] = "raised"]
                /\ UNCHANGED pattern
           ELSE /\ pattern' = [pattern EXCEPT ![Frame(c)] = r]
                /\ pc' = [pc EXCEPT ![c] = StepAfter("detect_pattern")]
                /\ UNCHANGED error
    /\ UNCHANGED <<catalog, collaborator, scen, benefits, explanation, guidance,
                   transparency, response, api_calls, result, pure_in, pure_out,
                   pure_prev, pure_calls>>

Benefits(c) ==
    /\ pc[c] = "calculate_benefits"
    /\ benefits' = [benefits EXCEPT
                       ![Frame(c)] = calculate_benefits(Scenario(c), pattern[Frame(c)])]
    /\ pc' = [pc EXCEPT ![c] = StepAfter("calculate_benefits")]
    /\ UNCHANGED <<catalog, collaborator, scen, pattern, explanation, guidance,
                   transparency, response, api_calls, result, error, pure_in, pure_out,
                   pure_prev, pure_calls>>

\* self.client.messages.create(...): the one blocking call, and what it ends in
NarrateCall(c) ==
    /\ pc[c] = "generate_plain_language_explanation"
    /\ api_calls' = [api_calls EXCEPT ![c] = @ + 1]
    /\ \E o \in collaborator : response' = [response EXCEPT ![c] = o]
    /\ pc' = [pc EXCEPT ![c] = "collaborator_returned"]
    /\ UNCHANGED <<catalog, collaborator, scen, pattern, benefits, explanation,
                   guidance, transparency, result, error, pure_in, pure_out,
                   pure_prev, pure_calls>>

\* the rest of generate_plain_language_explanation: the reply trimmed and cut,
\* or the except branch
NarrateReturn(c) ==
    /\ pc[c] = "collaborator_returned"
    /\ explanation' = [explanation EXCEPT
                          ![Frame(c)] = NarrativeFor(response[c], pattern[Frame(c)],
                                                     Scenario(c)["data"],
                                                     benefits[Frame(c)])]
    /\ pc' = [pc EXCEPT ![c] = AfterNarrative(response[c])]
    /\ UNCHANGED <<catalog, collaborator, scen, pattern, benefits, guidance,
                   transparency, response, api_calls, result, error, pure_in, pure_out,
                   pure_prev, pure_calls>>

Guidance(c) ==
    /\ pc[c] = "get_actionable_guidance"
    /\ guidance' = [guidance EXCEPT
                       ![Frame(c)] = get_actionable_guidance(pattern[Frame(c)], Scenario(c))]
    /\ pc' = [pc EXCEPT ![c] = StepAfter("get_actionable_guidance")]
    /\ UNCHANGED <<catalog, collaborator, scen, pattern, benefits, explanation,
                   transparency, response, api_calls, result, error, pure_in, pure_out,
                   pure_prev, pure_calls>>

Transparency(c) ==
    /\ pc[c] = "build_transparency_data"
    /\ transparency' = [transparency EXCEPT
                           ![Frame(c)] = build_transparency_data(Scenario(c),
                                                                 pattern[Frame(c)],
                                                                 benefits[Frame(c)])]
    /\ pc' = [pc EXCEPT ![c] = StepAfter("build_transparency_data")]
    /\ UNCHANGED <<catalog, collaborator, scen, pattern, benefits, explanation,
                   guidance, response, api_calls, result, error, pure_in, pure_out,
                   pure_prev, pure_calls>>

Return(c) ==
    /\ pc[c] = "return"
    /\ result' = [result EXCEPT ![c] =
                     [scenario_name |-> Get(Scenario(c), "name", "Unknown Scenario"),
                      pattern_detection |-> pattern[Frame(c)],
                      explanation |-> explanation[Frame(c)],
                      word_count |-> WordCount(explanation[Frame(c)]),
                      actionable_guidance |-> guidance[Frame(c)],
                      benefits |-> benefits[Frame(c)],
                      transparency_data |-> transparency[Frame(c)]]]
    /\ pc' = [pc EXCEPT ![c] = "done"]
    /\ UNCHANGED <<catalog, collaborator, scen, pattern, benefits, explanation,
                   guidance, transparency, response, api_calls, error, pure_in, pure_out,
                   pure_prev, pure_calls>>

Analyze(c) ==
    \/ Begin(c)
    \/ Detect(c)
    \/ Benefits(c)
    \/ NarrateCall(c)
    \/ NarrateReturn(c)
    \/ Guidance(c)
    \/ Transparency(c)
    \/ Return(c)

-----------------------------------------------------------------------------
(* One component called on its own *)

NoPureCall == [fn |-> "none"]

\* the explainer object serves a component call and, once more, the same call
PureDetect ==
    /\ pure_in.fn = "detect_pattern"
    /\ pure_calls < 2
    /\ pure_prev' = pure_out
    /\ pure_out' = detect_pattern(pure_in.scenario)
    /\ pure_calls' = pure_calls + 1
    /\ UNCHANGED <<catalog, collaborator, pc, scen, pattern, benefits, explanation,
                   guidance, transparency, response, api_calls, result, error, pure_in>>

PureBenefits ==
    /\ pure_in.fn = "calculate_benefits"
    /\ pure_calls < 2
    /\ pure_prev' = pure_out
    /\ pure_out' = calculate_benefits(pure_in.scenario, pure_in.pattern)
    /\ pure_calls' = pure_calls + 1
    /\ UNCHANGED <<catalog, collaborator, pc, scen, pattern, benefits, explanation,
                   guidance, transparency, response, api_calls, result, error, pure_in>>

PureGuidance ==
    /\ pure_in.fn = "get_actionable_guidance"
    /\ pure_calls < 2
    /\ pure_prev' = pure_out
    /\ pure_out' = get_actionable_guidance(pure_in.pattern, pure_in.scenario)
    /\ pure_calls' = pure_calls + 1
    /\ UNCHANGED <<catalog, collaborator, pc, scen, pattern, benefits, explanation,
                   guidance, transparency, response, api_calls, result, error, pure_in>>

PureTransparency ==
    /\ pure_in.fn = "build_transparency_data"
    /\ pure_calls < 2
    /\ pure_prev' = pure_out
    /\ pure_out' = build_transparency_data(pure_in.scenario, pure_in.pattern,
                                           pure_in.benefits)
    /\ pure_calls' = pure_calls + 1
    /\ UNCHANGED <<catalog, collaborator, pc, scen, pattern, benefits, explanation,
                   guidance, transparency, response, api_calls, result, error, pure_in>>

-----------------------------------------------------------------------------
(* Specifications *)

Idle(status) ==
    /\ pc = [c \in Calls |-> status[c]]
    /\ scen = [c \in Calls |-> 0]
    /\ pattern = [c \in Calls |-> Unset]
    /\ benefits = [c \in Calls |-> Unset]
    /\ explanation = [c \in Calls |-> NoText]
    /\ guidance = [c \in Calls |-> Unset]
    /\ transparency = [c \in Calls |-> Unset]
    /\ response = [c \in Calls |-> Unset]
    /\ api_calls = [c \in Calls |-> 0]
    /\ result = [c \in Calls |-> Unset]
    /\ error = [c \in Calls |-> ""]

\* one analysis of one scenario record
Init ==
    /\ \/ \E s \in AnalysisInputs : catalog = <<s>>
       \/ \E s \in MissingFieldInputs : catalog = <<s>>
       \/ \E i \in 1..Len(GeneratedScenarios) : catalog = <<GeneratedScenarios[i]>>
    /\ collaborator = Outcomes
    /\ Idle([c \in Calls |-> IF c = 1 THEN "start" ELSE "off"])
    /\ pure_in = NoPureCall
    /\ pure_out = Unset
    /\ pure_prev = Unset
    /\ pure_calls = 0

Next == \E c \in Calls : Analyze(c)

Spec == Init /\ [][Next]_vars

\* concurrent analyses over the catalog generated from one profile
InitConcurrent ==
    /\ catalog = SubSeq(GeneratedScenarios, 1, CatalogSize)
    /\ collaborator = {Reply(WordLimit + 1, FALSE), Failure("APIConnectionError")}
    /\ Idle([c \in Calls |-> "start"])
    /\ pure_in = NoPureCall
    /\ pure_out = Unset
    /\ pure_prev = Unset
    /\ pure_calls = 0

SpecConcurrent == InitConcurrent /\ [][Next]_vars

\* two runs of the analysis on the same scenario record, the collaborator
\* free to behave differently in each
InitTwoRuns ==
    /\ \E i \in 1..Len(GeneratedScenarios) : catalog = <<GeneratedScenarios[i]>>
    /\ collaborator = Outcomes
    /\ Idle([c \in Calls |-> IF c <= 2 THEN "start" ELSE "off"])
    /\ pure_in = NoPureCall
    /\ pure_out = Unset
    /\ pure_prev = Unset
    /\ pure_calls = 0

SpecTwoRuns == InitTwoRuns /\ [][Next]_vars

\* one component applied to arguments of its own
InitPure ==
    /\ pure_calls = 0
    /\ pure_prev = Unset
    /\ catalog = <<>>
    /\ collaborator = {}
    /\ Idle([c \in Calls |-> "off"])
    /\ \/ \E s \in DetectInputs : pure_in = [fn |-> "detect_pattern", scenario |-> s]
       \/ \E s \in SmartBehaviourInputs :
              pure_in = [fn |-> "detect_pattern", scenario |-> s]
       \/ \E s \in MissingFieldInputs :
              pure_in = [fn |-> "detect_pattern", scenario |-> s]
       \/ \E s \in ComponentInputs, pt \in AnyPatternType :
              pure_in = [fn |-> "calculate_benefits", scenario |-> s,
                         pattern |-> PatternOfType(pt)]
       \/ \E s \in ComponentInputs, pt \in AnyPatternType :
              pure_in = [fn |-> "get_actionable_guidance", scenario |-> s,
                         pattern |-> PatternOfType(pt)]
       \/ \E s \in MissingRequiredInputs, pt \in AnyPatternType :
              pure_in = [fn |-> "get_actionable_guidance", scenario |-> s,
                         pattern |-> PatternOfType(pt)]
       \/ \E s \in ComponentInputs \cup CopBandInputs, pt \in AnyPatternType :
              pure_in = [fn |-> "build_transparency_data", scenario |-> s,
                         pattern |-> PatternOfType(pt),
                         benefits |-> calculate_benefits(s, PatternOfType(pt))]
    /\ pure_out = Unset

NextPure == PureDetect \/ PureBenefits \/ PureGuidance \/ PureTransparency

SpecPure == InitPure /\ [][NextPure]_vars
-----------------------------------------------------------------------------
(* Properties *)

\* the scenario record handed to a component called on its own is validated:
\* it has a data dict with the four required fields
PureValidated ==
    /\ "scenario" \in DOMAIN pure_in
    /\ "data" \in DOMAIN pure_in.scenario
    /\ RequiredFields \subseteq DOMAIN pure_in.scenario["data"]

PureReturned(fn) == pure_in.fn = fn /\ pure_out # Unset

\* C1 (totality of classification): for every scenario whose data has the four
\* required fields, whatever the optional fields and the timestamp are,
\* detect_pattern returns without raising and its pattern_type is one of the
\* eight values of the enumeration.
C1_Totality ==
    (PureReturned("detect_pattern") /\ PureValidated)
        => (~Raised(pure_out) /\ pure_out.pattern_type \in PatternTypes)

\* C2 (priority order): a snapshot that satisfies the predicate of rule 1, 2 or
\* 3 is classified, with is_anomaly true, as the lowest-numbered of the rules
\* it satisfies, also when it satisfies rule 4 or another later rule; so cop <
\* 1.8 with outdoor_temp > 0 is always efficiency_anomaly.
C2_PriorityOrder ==
    (PureReturned("detect_pattern") /\ PureValidated) =>
        LET d == pure_in.scenario["data"]
            rule1 == d["cop"] < 180 /\ d["outdoor_temp"] > 0
            rule2 == /\ d["indoor_temp"] < Get(d, "target_temp", 200) - 20
                     /\ "heat_pump_status" \in DOMAIN d
                     /\ d["heat_pump_status"] = "heating"
            rule3 == d["power_consumption_kw"] > 450
            lowest == IF rule1 THEN "efficiency_anomaly"
                      ELSE IF rule2 THEN "temperature_deficit"
                      ELSE "high_power_consumption"
        IN  (rule1 \/ rule2 \/ rule3) =>
                /\ ~Raised(pure_out)
                /\ pure_out.pattern_type = lowest
                /\ pure_out.is_anomaly

\* a snapshot matching rule 1 and rule 4 at once (cop 1.5 at 6.0 degrees, taken
\* at 02:30 at a price of 0.08) has been classified as efficiency_anomaly
C2_Witness ==
    /\ PureReturned("detect_pattern")
    /\ PureValidated
    /\ pure_in.scenario["data"]["cop"] < 180
    /\ pure_in.scenario["data"]["outdoor_temp"] > 0
    /\ "timestamp" \in DOMAIN pure_in.scenario
    /\ pure_in.scenario["timestamp"] = TsNight
    /\ Get(pure_in.scenario["data"], "electricity_price_current", 15) < 12
    /\ pure_in.scenario["data"]["indoor_temp"] < 180
    /\ ~Raised(pure_out)
    /\ pure_out.pattern_type = "efficiency_anomaly"

\* C3 (non-negativity of benefits): for every scenario and every pattern_type,
\* calculate_benefits returns cost_savings >= 0 and carbon_kg >= 0, called on
\* its own as well as inside an analysis.
C3_NonNegative ==
    /\ PureReturned("calculate_benefits")
           => (pure_out.cost_savings >= 0 /\ pure_out.carbon_kg >= 0)
    /\ \A c \in Calls :
           benefits[c] # Unset
               => (benefits[c].cost_savings >= 0 /\ benefits[c].carbon_kg >= 0)

\* a call's scenario record lacks the data dict or one of the required fields
LacksRequired(c) ==
    /\ scen[c] # 0
    /\ \/ "data" \notin DOMAIN Scenario(c)
       \/ ~(RequiredFields \subseteq DOMAIN Scenario(c)["data"])

\* C4 (missing required field): when a required field is absent from the
\* scenario data, analyze_scenario ends in the missing-key error raised while
\* detect_pattern reads the fields: no classification, benefit, narrative,
\* guidance or transparency is computed, the collaborator is not called, and
\* nothing is returned.
C4_MissingField ==
    \A c \in Calls :
        LacksRequired(c) =>
            /\ pc[c] \in {"detect_pattern", "raised"}
            /\ (pc[c] = "raised" => error[c] = "KeyError")
            /\ pattern[c] = Unset
            /\ benefits[c] = Unset
            /\ explanation[c] = NoText
            /\ guidance[c] = Unset
            /\ transparency[c] = Unset
            /\ api_calls[c] = 0
            /\ result[c] = Unset

\* an analysis of a record without power_consumption_kw whose other fields
\* match rule 1 has ended in the error
C4_Witness ==
    /\ LacksRequired(1)
    /\ "data" \in DOMAIN Scenario(1)
    /\ {"cop", "outdoor_temp"} \subseteq DOMAIN Scenario(1)["data"]
    /\ Scenario(1)["data"]["cop"] < 180
    /\ Scenario(1)["data"]["outdoor_temp"] > 0
    /\ pc[1] = "raised"
    /\ error[1] = "KeyError"

\* the collaborator call of c has ended in an exception and the handler has run
FallbackTaken(c) ==
    /\ response[c] # Unset
    /\ response[c].kind = "raise"
    /\ pc[c] # "collaborator_returned"

ResultKeys ==
    {"scenario_name", "pattern_detection", "explanation", "word_count",
     "actionable_guidance", "benefits", "transparency_data"}

\* C5 (collaborator failure is recovered locally): whenever the collaborator
\* call fails, the failure is not propagated, the explanation is the entry of
\* the fallback table for the classified pattern_type (the default sentence for
\* a type without an entry), and the analysis goes on to return a complete
\* result carrying that explanation.
C5_FallbackOnFailure ==
    \A c \in Calls :
        FallbackTaken(c) =>
            LET table == FallbackTemplates(Scenario(c)["data"], benefits[c])
                pt == pattern[c].pattern_type
            IN  /\ error[c] = ""
                /\ pc[c] \in {"get_actionable_guidance", "build_transparency_data",
                              "return", "done"}
                /\ explanation[c] = IF pt \in DOMAIN table THEN table[pt]
                                    ELSE FallbackDefault
                /\ pc[c] = "done" =>
                       /\ DOMAIN result[c] = ResultKeys
                       /\ result[c].explanation = explanation[c]
                       /\ \A k \in {"pattern_detection", "actionable_guidance",
                                     "benefits", "transparency_data"} :
                              result[c][k] # Unset

\* an analysis classified as tariff_optimization whose collaborator was
\* unreachable has returned
C5_Witness ==
    /\ FallbackTaken(1)
    /\ response[1].exc = "APIConnectionError"
    /\ pc[1] = "done"
    /\ result[1].pattern_detection.pattern_type = "tariff_optimization"

\* the words of a text counted from its word starts
WordStarts(text) ==
    Cardinality({i \in 1..Len(text) :
                    text[i] # " " /\ (i = 1 \/ text[i - 1] = " ")})

C8_NarrateAfterGuidance ==
    \A c \in Calls :
        api_calls[c] > 0 => (guidance[c] # Unset /\ transparency[c] # Unset)

\* C8 amended: the steps occur in the order classify, estimate benefit, narrate
\* (with its collaborator call), resolve guidance, assemble transparency,
\* return; no step runs before the outputs it depends on exist.
C8_CodeOrder ==
    \A c \in Calls :
        /\ benefits[c] # Unset => pattern[c] # Unset
        /\ api_calls[c] > 0 => benefits[c] # Unset
        /\ explanation[c] # NoText => api_calls[c] > 0
        /\ guidance[c] # Unset => explanation[c] # NoText
        /\ transparency[c] # Unset => guidance[c] # Unset
        /\ result[c] # Unset => transparency[c] # Unset

\* the narrative is there and guidance is about to be resolved
C8_Witness ==
    /\ pc[1] = "get_actionable_guidance"
    /\ explanation[1] # NoText
    /\ guidance[1] = Unset
    /\ transparency[1] = Unset

\* C9 (tier is a function of pattern_type): get_actionable_guidance returns
\* tier normal for the five normal patterns, check for temperature_deficit and
\* high_power_consumption, fault for efficiency_anomaly, and the normal-tier
\* default entry for a pattern_type outside the table, without raising,
\* whatever the snapshot values.
C9_TierByPattern ==
    (PureReturned("get_actionable_guidance") /\ PureValidated) =>
        LET pt == pure_in.pattern.pattern_type
        IN  /\ ~Raised(pure_out)
            /\ pure_out.tier \in {"normal", "check", "fault"}
            /\ pure_out.tier =
                   (IF pt = "efficiency_anomaly" THEN "fault"
                    ELSE IF pt \in {"temperature_deficit", "high_power_consumption"}
                    THEN "check"
                    ELSE "normal")
            /\ pt \notin (PatternTypes \ {"normal_operation"}) =>
                   pure_out.confidence = "Probably normal"

\* guidance for a pattern_type outside the table has resolved to the default
C9_Witness ==
    /\ PureReturned("get_actionable_guidance")
    /\ PureValidated
    /\ pure_in.pattern.pattern_type = "unknown_pattern"
    /\ ~Raised(pure_out)
    /\ pure_out.tier = "normal"

\* what an analysis of scenario record s computes when it runs alone
SoloPattern(s) == detect_pattern(s)
SoloBenefits(s) == calculate_benefits(s, SoloPattern(s))

\* C10 (shared data is never written, concurrent analyses are independent): no
\* step of any analysis changes the scenario catalog (the scenario records and
\* their property_profile), and however the calls interleave, the
\* classification, benefits, guidance and transparency a call returns are
\* those of an analysis of its scenario run alone.
C10_Isolation ==
    [][ /\ catalog' = catalog
        /\ \A c \in Calls :
              pc'[c] = "done" =>
                  LET s == catalog[scen'[c]]
                      r == result'[c]
                  IN  /\ r.pattern_detection = SoloPattern(s)
                      /\ r.benefits = SoloBenefits(s)
                      /\ r.actionable_guidance =
                             get_actionable_guidance(SoloPattern(s), s)
                      /\ r.transparency_data =
                             build_transparency_data(s, SoloPattern(s), SoloBenefits(s))
      ]_vars

\* two concurrent calls on different scenarios have both returned, with
\* different classifications
C10_Witness ==
    /\ pc[1] = "done"
    /\ pc[2] = "done"
    /\ scen[1] # scen[2]
    /\ result[1].pattern_detection.pattern_type # result[2].pattern_detection.pattern_type

C12_TariffFormula ==
    (PureReturned("calculate_benefits")
     /\ pure_in.pattern.pattern_type = "tariff_optimization") =>
        LET d == pure_in.scenario["data"]
            peak == IF "electricity_price_peak" \in DOMAIN d
                    THEN d["electricity_price_peak"] ELSE 28
            current == IF "electricity_price_current" \in DOMAIN d
                       THEN d["electricity_price_current"] ELSE 8
            power == d["power_consumption_kw"]
            exact == (peak - current) * power * 3
        IN  /\ 100 * pure_out.cost_savings - exact <= 50
            /\ exact - 100 * pure_out.cost_savings <= 50
            /\ pure_out.carbon_kg = 8
            /\ (peak = 28 /\ current = 8 /\ power = 210) => pure_out.cost_savings = 126

\* the benefit of a tariff_optimization snapshot without either price, at
\* 2.1 kW, has been calculated as 1.26
C12_Witness ==
    /\ PureReturned("calculate_benefits")
    /\ pure_in.pattern.pattern_type = "tariff_optimization"
    /\ "electricity_price_peak" \notin DOMAIN pure_in.scenario["data"]
    /\ "electricity_price_current" \notin DOMAIN pure_in.scenario["data"]
    /\ pure_in.scenario["data"]["power_consumption_kw"] = 210
    /\ pure_out.cost_savings = 126

\* C13 (benefit keyed only by pattern_type outside the tariff case):
\* vpp_curtailment yields 0.15 and 1.2, predictive_heating 0.85 and 0.5, every
\* other non-tariff pattern_type, an unknown one included, 0.0 and 0.0,
\* whatever the snapshot values are.
C13_KeyedByPattern ==
    (PureReturned("calculate_benefits")
     /\ pure_in.pattern.pattern_type # "tariff_optimization") =>
        LET pt == pure_in.pattern.pattern_type
        IN  pure_out = (IF pt = "vpp_curtailment"
                        THEN [cost_savings |-> 15, carbon_kg |-> 12]
                        ELSE IF pt = "predictive_heating"
                        THEN [cost_savings |-> 85, carbon_kg |-> 5]
                        ELSE [cost_savings |-> 0, carbon_kg |-> 0])

\* the benefit of a vpp_curtailment snapshot drawing 4.6 kW at a current price
\* of 0.32 has been calculated
C13_Witness ==
    /\ PureReturned("calculate_benefits")
    /\ pure_in.pattern.pattern_type = "vpp_curtailment"
    /\ pure_in.scenario["data"]["power_consumption_kw"] = 460
    /\ Get(pure_in.scenario["data"], "electricity_price_current", 0) = 32
    /\ pure_out.cost_savings = 15

\* The rules of the classifier as the specification words them, over the
\* snapshot d of scenario record s; the hour is that of a timestamp written
\* 'YYYY-MM-DDThh:mm:ss', or of the default timestamp when there is none.
SpecRule1(d) == d["cop"] < 180 /\ d["outdoor_temp"] > 0
SpecRule2(d) ==
    /\ d["indoor_temp"] < Get(d, "target_temp", 200) - 20
    /\ "heat_pump_status" \in DOMAIN d
    /\ d["heat_pump_status"] = "heating"
SpecRule3(d) == d["power_consumption_kw"] > 450
WellTimed(s) ==
    "timestamp" \in DOMAIN s => s["timestamp"] \in {TsNight, TsLastCheap, TsMorning}
SpecHour(s) ==
    IF "timestamp" \notin DOMAIN s THEN 12
    ELSE IF s["timestamp"] = TsNight THEN 2
    ELSE IF s["timestamp"] = TsLastCheap THEN 5
    ELSE 6
SpecRule4(s) ==
    /\ SpecHour(s) \in 0..5
    /\ Get(s["data"], "electricity_price_current", 15) < 12
\* a vpp_signal is present: the key holds a signal, not None and not ''
SpecRule5(d) ==
    /\ "vpp_signal" \in DOMAIN d
    /\ d["vpp_signal"] \notin {PyNone, ""}
    /\ d["indoor_temp"] < Get(d, "target_temp", 200)
\* weather_forecast_temp is present with any numeric value
SpecRule6(d) ==
    /\ "weather_forecast_temp" \in DOMAIN d
    /\ d["weather_forecast_temp"] < d["outdoor_temp"] - 50
SpecRule7(d) == d["outdoor_temp"] < 0 /\ d["cop"] >= 200 /\ d["cop"] < 280

\* detect_pattern, called on its own with a validated, well-timed record that
\* matches none of rules 1-3, has returned or raised
PastAnomalyRules ==
    /\ PureReturned("detect_pattern")
    /\ PureValidated
    /\ WellTimed(pure_in.scenario)
    /\ ~SpecRule1(pure_in.scenario["data"])
    /\ ~SpecRule2(pure_in.scenario["data"])
    /\ ~SpecRule3(pure_in.scenario["data"])

\* C14 (rule 6, predictive heating): for every snapshot matching none of rules
\* 1-5, when weather_forecast_temp is present, with any numeric value, 0.0
\* included, and below outdoor_temp - 5, detect_pattern returns
\* predictive_heating with is_anomaly false and category smart_behavior.
C14_PredictiveHeating ==
    (/\ PastAnomalyRules
     /\ ~SpecRule4(pure_in.scenario)
     /\ ~SpecRule5(pure_in.scenario["data"])
     /\ SpecRule6(pure_in.scenario["data"])) =>
        /\ ~Raised(pure_out)
        /\ pure_out.pattern_type = "predictive_heating"
        /\ ~pure_out.is_anomaly
        /\ pure_out.category = "smart_behavior"

\* C15 (rule 4, tariff optimisation): for every snapshot matching none of rules
\* 1-3, detect_pattern returns tariff_optimization, with is_anomaly false and
\* category smart_behavior, exactly when the hour is in 0..5 inclusive and
\* electricity_price_current, 0.15 when absent, is strictly below 0.12.
C15_TariffRule ==
    PastAnomalyRules =>
        /\ ~Raised(pure_out)
        /\ pure_out.pattern_type = "tariff_optimization" <=> SpecRule4(pure_in.scenario)
        /\ pure_out.pattern_type = "tariff_optimization" =>
               (~pure_out.is_anomaly /\ pure_out.category = "smart_behavior")

\* a snapshot taken at 05:59 at a price of 0.11 has been classified as
\* tariff_optimization
C15_Witness ==
    /\ PastAnomalyRules
    /\ "timestamp" \in DOMAIN pure_in.scenario
    /\ pure_in.scenario["timestamp"] = TsLastCheap
    /\ Get(pure_in.scenario["data"], "electricity_price_current", 15) = 11
    /\ ~Raised(pure_out)
    /\ pure_out.pattern_type = "tariff_optimization"

\* C16 (rule 5, VPP curtailment): for every snapshot matching none of rules
\* 1-4, detect_pattern returns vpp_curtailment, with is_anomaly false and
\* category smart_behavior, when a vpp_signal is present and indoor_temp is
\* below target_temp (20.0 when absent), and does not when indoor_temp is at
\* or above the target or there is no signal.
C16_VppRule ==
    (PastAnomalyRules /\ ~SpecRule4(pure_in.scenario)) =>
        /\ ~Raised(pure_out)
        /\ pure_out.pattern_type = "vpp_curtailment"
               <=> SpecRule5(pure_in.scenario["data"])
        /\ pure_out.pattern_type = "vpp_curtailment" =>
               (~pure_out.is_anomaly /\ pure_out.category = "smart_behavior")

\* a snapshot at 19.8 degrees without a target, carrying the signal
\* reduce_50%, has been classified as vpp_curtailment
C16_Witness ==
    /\ PastAnomalyRules
    /\ ~SpecRule4(pure_in.scenario)
    /\ "target_temp" \notin DOMAIN pure_in.scenario["data"]
    /\ pure_in.scenario["data"]["indoor_temp"] = 198
    /\ Get(pure_in.scenario["data"], "vpp_signal", "") = "reduce_50%"
    /\ ~Raised(pure_out)
    /\ pure_out.pattern_type = "vpp_curtailment"

\* C17 (rule 7 and the default): for every snapshot matching none of rules
\* 1-6, detect_pattern returns cold_weather_operation exactly when
\* outdoor_temp < 0 and 2.0 <= cop < 2.8, and otherwise normal_operation with
\* severity none and confidence medium; a cold_weather_operation snapshot
\* (cop 2.4 at -5.0 degrees, 19.8 indoors) resolves to tier normal and to
\* benefits 0.0 / 0.0.
C17_ColdWeatherAndDefault ==
    (/\ PastAnomalyRules
     /\ ~SpecRule4(pure_in.scenario)
     /\ ~SpecRule5(pure_in.scenario["data"])
     /\ ~SpecRule6(pure_in.scenario["data"])) =>
        /\ ~Raised(pure_out)
        /\ SpecRule7(pure_in.scenario["data"]) =>
               /\ pure_out.pattern_type = "cold_weather_operation"
               /\ ~pure_out.is_anomaly
               /\ get_actionable_guidance(pure_out, pure_in.scenario).tier = "normal"
               /\ calculate_benefits(pure_in.scenario, pure_out)
                      = [cost_savings |-> 0, carbon_kg |-> 0]
        /\ ~SpecRule7(pure_in.scenario["data"]) =>
               /\ pure_out.pattern_type = "normal_operation"
               /\ pure_out.severity = "none"
               /\ pure_out.confidence = "medium"
               /\ ~pure_out.is_anomaly

\* the snapshot with cop 2.4 at -5.0 degrees and 19.8 indoors has been
\* classified as cold_weather_operation
C17_Witness ==
    /\ PastAnomalyRules
    /\ pure_in.scenario["data"]["cop"] = 240
    /\ pure_in.scenario["data"]["outdoor_temp"] = -50
    /\ pure_in.scenario["data"]["indoor_temp"] = 198
    /\ ~Raised(pure_out)
    /\ pure_out.pattern_type = "cold_weather_operation"

\* C18 (transparency is a re-presentation): in every result of
\* analyze_scenario the values shown in the transparency report are the values
\* used elsewhere in the analysis: the current price shown is the one
\* detect_pattern compared, the peak price shown in the context section and in
\* why_this_conclusion is the one calculate_benefits used (the default when the
\* price is absent), the forecast shown is the one rule 6 compared, the trigger
\* is the classification's and the calculated_benefits section carries the
\* returned benefits.
C18_RePresentation ==
    \A c \in Calls :
        pc[c] = "done" =>
            LET d == Scenario(c)["data"]
                r == result[c]
                t == r.transparency_data
                pt == r.pattern_detection.pattern_type
                price_classified == Get(d, "electricity_price_current", 15)
                price_benefit == Get(d, "electricity_price_current", 8)
                peak_benefit == Get(d, "electricity_price_peak", 28)
            IN  /\ t.detection_details.trigger = r.pattern_detection.trigger
                /\ t.calculated_benefits.cost_savings_today.args
                       = <<r.benefits.cost_savings>>
                /\ t.calculated_benefits.carbon_avoided.args = <<r.benefits.carbon_kg>>
                /\ t.context.electricity_price.args = <<price_classified>>
                /\ pt = "tariff_optimization" =>
                       /\ t.context.peak_price.args = <<peak_benefit>>
                       /\ t.why_this_conclusion.args = <<price_benefit, peak_benefit>>
                /\ pt = "predictive_heating" =>
                       /\ t.context.weather_forecast.args = <<d["weather_forecast_temp"]>>
                       /\ t.why_this_conclusion.args[1] = d["weather_forecast_temp"]

\* C19 (trigger strings are live): whichever of the eight rules returns, the
\* trigger of the classification interpolates numbers of the snapshot; no rule
\* returns a fixed text.
C19_LiveTriggers ==
    (PureReturned("detect_pattern") /\ ~Raised(pure_out)) =>
        pure_out.trigger.args # <<>>

\* C20 (COP banding): _interpret_cop, as the measurements section of the
\* report shows it, is total with half-open bands: Excellent from 3.5, Good on
\* [3.0, 3.5), Moderate on [2.5, 3.0), Acceptable for cold weather on
\* [2.0, 2.5), needs-attention below 2.0; each boundary value belongs to the
\* upper band.
C20_CopBands ==
    (PureReturned("build_transparency_data") /\ PureValidated) =>
        LET cop == pure_in.scenario["data"]["cop"]
            band == pure_out.measurements.cop_interpretation
        IN  /\ ~Raised(pure_out)
            /\ band \in {"Excellent efficiency", "Good efficiency", "Moderate efficiency",
                          "Acceptable for cold weather",
                          "Lower than expected - may need attention"}
            /\ band = "Excellent efficiency" <=> cop >= 350
            /\ band = "Good efficiency" <=> (300 <= cop /\ cop < 350)
            /\ band = "Moderate efficiency" <=> (250 <= cop /\ cop < 300)
            /\ band = "Acceptable for cold weather" <=> (200 <= cop /\ cop < 250)
            /\ band = "Lower than expected - may need attention" <=> cop < 200

\* a report for a cop of exactly 3.0 has been assembled and shows Good
C20_Witness ==
    /\ PureReturned("build_transparency_data")
    /\ PureValidated
    /\ pure_in.scenario["data"]["cop"] = 300
    /\ ~Raised(pure_out)
    /\ pure_out.measurements.cop_interpretation = "Good efficiency"

\* C21 (anomaly flag and guidance tier agree): in every result of
\* analyze_scenario, pattern_detection.is_anomaly is true if and only if
\* actionable_guidance.tier is check or fault, if and only if severity is not
\* none; and benefits are non-zero only when is_anomaly is false.
C21_AnomalyTierAgree ==
    \A c \in Calls :
        pc[c] = "done" =>
            LET p == result[c].pattern_detection
                g == result[c].actionable_guidance
                b == result[c].benefits
            IN  /\ p.is_anomaly <=> g.tier \in {"check", "fault"}
                /\ p.is_anomaly <=> p.severity # "none"
                /\ (b.cost_savings # 0 \/ b.carbon_kg # 0) => ~p.is_anomaly

\* an analysis classified as high_power_consumption has returned with the
\* check tier and no benefit
C21_Witness ==
    /\ pc[1] = "done"
    /\ result[1].pattern_detection.pattern_type = "high_power_consumption"
    /\ result[1].pattern_detection.is_anomaly
    /\ result[1].actionable_guidance.tier = "check"
    /\ result[1].benefits.cost_savings = 0

\* C22 (the collaborator's reply influences only the narrative): two runs of
\* analyze_scenario on the same scenario, whatever the collaborator does in
\* each (a reply, an over-long reply, a failure), return the same
\* scenario_name, pattern_detection, benefits, actionable_guidance and
\* transparency_data; only explanation and word_count may differ.
C22_ReplyOnlyNarrative ==
    \A c1, c2 \in Calls :
        (pc[c1] = "done" /\ pc[c2] = "done" /\ Scenario(c1) = Scenario(c2)) =>
            \A k \in {"scenario_name", "pattern_detection", "benefits",
                       "actionable_guidance", "transparency_data"} :
                result[c1][k] = result[c2][k]

\* two runs on the same scenario have returned, one after a collaborator
\* failure and one after an over-long reply, with different explanations
C22_Witness ==
    /\ pc[1] = "done"
    /\ pc[2] = "done"
    /\ Scenario(1) = Scenario(2)
    /\ response[1].kind = "raise"
    /\ response[2].kind = "reply"
    /\ response[2].words > 50
    /\ result[1].explanation # result[2].explanation
    /\ result[1].word_count # result[2].word_count
====
